---- MODULE Spec2Model ----
(***************************************************************************)
(* A model of the conversation tree of backend/node.py and backend/tree.py *)
(* (Node, ResponseSegment, Tree) and of the script backend/main.py.        *)
(*                                                                         *)
(* Text is a sequence of one-character strings, so that strip, split,      *)
(* the regular expressions and the sentence splitter are computed on the   *)
(* characters as the Python code computes them.                            *)
(*                                                                         *)
(* A Python object is an index into the sequence `nodes`; 0 stands for     *)
(* None.  Node declares no __init__ and is not decorated as a dataclass,   *)
(* so Node() yields an object with no instance attribute: `attrs` is the   *)
(* set of instance attributes an object has been given, and reading one    *)
(* that is in neither `attrs` nor the class body raises AttributeError.    *)
(***************************************************************************)
EXTENDS Integers, Sequences, FiniteSets, TLC

VARIABLES nodes, root_node, node_count, last

vars == <<nodes, root_node, node_count, last>>

-----------------------------------------------------------------------------
(* Bounds of the model                                                     *)

\* the number of Node objects a behaviour may construct
MaxNodes == 2

\* the longest text the segmentation and classification runs enumerate
MaxTextLen == 4

-----------------------------------------------------------------------------
(* Text                                                                    *)

\* the characters str.strip() and str.split() treat as whitespace
Whitespace == {" ", "\t", "\n", "\r", "\f"}

LowerLetters == <<"a", "b", "c", "d", "e", "f", "g", "h", "i", "j", "k", "l", "m", "n", "o", "p", "q", "r", "s", "t", "u", "v", "w", "x", "y", "z">>

UpperLetters == <<"A", "B", "C", "D", "E", "F", "G", "H", "I", "J", "K", "L", "M", "N", "O", "P", "Q", "R", "S", "T", "U", "V", "W", "X", "Y", "Z">>

Digits == {"0", "1", "2", "3", "4", "5", "6", "7", "8", "9"}

Range(f) == {f[i] : i \in DOMAIN f}

\* str.lower() / re.IGNORECASE on one character
LowerChar(c) == IF c \in Range(UpperLetters) THEN LowerLetters[CHOOSE i \in DOMAIN UpperLetters : UpperLetters[i] = c] ELSE c

\* str.lower()
Lower(s) == [i \in 1..Len(s) |-> LowerChar(s[i])]

\* the characters the regular expression class \w matches
IsWordChar(c) == c \in Range(LowerLetters) \cup Range(UpperLetters) \cup Digits \cup {"_"}

RECURSIVE LStrip(_)
LStrip(s) == IF s = <<>> \/ Head(s) \notin Whitespace THEN s ELSE LStrip(Tail(s))

RECURSIVE RStrip(_)
RStrip(s) == IF s = <<>> \/ s[Len(s)] \notin Whitespace THEN s ELSE RStrip(SubSeq(s, 1, Len(s) - 1))

\* str.strip()
Strip(s) == RStrip(LStrip(s))

\* str.split(sep) for a one-character separator: the pieces between the
\* separators, empty pieces kept, one piece for a text without separator
RECURSIVE SplitOn(_, _)
SplitOn(s, sep) ==
    IF \E i \in 1..Len(s) : s[i] = sep
    THEN LET i == CHOOSE k \in 1..Len(s) : s[k] = sep /\ \A j \in 1..(k - 1) : s[j] # sep
         IN  <<SubSeq(s, 1, i - 1)>> \o SplitOn(SubSeq(s, i + 1, Len(s)), sep)
    ELSE <<s>>

\* str.startswith(prefix)
StartsWith(s, prefix) == Len(s) >= Len(prefix) /\ SubSeq(s, 1, Len(prefix)) = prefix

\* str.endswith(suffix)
EndsWith(s, suffix) == Len(s) >= Len(suffix) /\ SubSeq(s, Len(s) - Len(suffix) + 1, Len(s)) = suffix

\* all texts over an alphabet up to a length
TextsUpTo(alphabet, n) == UNION {[1..k -> alphabet] : k \in 0..n}

-----------------------------------------------------------------------------
(* Node._segment_response                                                  *)

\* [seg.strip() for seg in response.split('\n') if seg.strip()]
StrippedLines(response) == SelectSeq([i \in 1..Len(SplitOn(response, "\n")) |-> Strip(SplitOn(response, "\n")[i])], LAMBDA seg : seg # <<>>)

\* mutant: blank lines are kept as empty segments
SegmentsOfKeepingBlank(response) == [i \in 1..Len(SplitOn(response, "\n")) |-> [content |-> Strip(SplitOn(response, "\n")[i]), index |-> i - 1, children |-> <<>>]]

\* the list _segment_response builds: one ResponseSegment per surviving line
SegmentsOf(response) == [i \in 1..Len(StrippedLines(response)) |-> [content |-> StrippedLines(response)[i], index |-> i - 1, children |-> <<>>]]

-----------------------------------------------------------------------------
(* Node.is_probable_system_heuristic                                       *)

\* the imperative-mood triggers, lowercased
_IMPERATIVE_VERBS == {
    <<"e", "n", "s", "u", "r", "e">>,
    <<"s", "a", "n", "i", "t", "i", "z", "e">>,
    <<"n", "e", "v", "e", "r">>,
    <<"a", "l", "w", "a", "y", "s">>,
    <<"m", "a", "k", "e">>,
    <<"a", "v", "o", "i", "d">>,
    <<"v", "a", "l", "i", "d", "a", "t", "e">>,
    <<"c", "h", "e", "c", "k">>,
    <<"r", "e", "j", "e", "c", "t">>,
    <<"a", "l", "l", "o", "w">>,
    <<"d", "e", "n", "y">>,
    <<"u", "s", "e">>,
    <<"r", "e", "q", "u", "i", "r", "e">>,
    <<"r", "e", "s", "p", "o", "n", "d">> }

\* ^you are\b, ^you should\b, ^always\b, ^never\b, \bmake sure\b: the literal
\* of each pattern, whether ^ anchors it and whether \b precedes it (\b
\* follows every one of them)
_SYSTEM_PATTERNS == {
    [lit |-> <<"y", "o", "u", " ", "a", "r", "e">>, anchored |-> TRUE, leading_b |-> FALSE],
    [lit |-> <<"y", "o", "u", " ", "s", "h", "o", "u", "l", "d">>, anchored |-> TRUE, leading_b |-> FALSE],
    [lit |-> <<"a", "l", "w", "a", "y", "s">>, anchored |-> TRUE, leading_b |-> FALSE],
    [lit |-> <<"n", "e", "v", "e", "r">>, anchored |-> TRUE, leading_b |-> FALSE],
    [lit |-> <<"m", "a", "k", "e", " ", "s", "u", "r", "e">>, anchored |-> FALSE, leading_b |-> TRUE] }

\* the alternatives of _META_TAGS: \[SYSTEM\], ##SYSTEM##, \(system\)
_META_TAGS == {
    <<"[", "s", "y", "s", "t", "e", "m", "]">>,
    <<"#", "#", "s", "y", "s", "t", "e", "m", "#", "#">>,
    <<"(", "s", "y", "s", "t", "e", "m", ")">> }

\* the greeting prefixes of str.startswith(("hi", "hello", "hey"))
Greetings == { <<"h", "i">>, <<"h", "e", "l", "l", "o">>, <<"h", "e", "y">> }

\* a lowercase literal matches s at position pos under re.IGNORECASE
MatchesLiteralAt(s, pos, lit) == pos + Len(lit) - 1 <= Len(s) /\ Lower(SubSeq(s, pos, pos + Len(lit) - 1)) = lit

\* the regular expression \b between s[k] and s[k+1] (k = 0: the start of
\* the text, k = Len(s): its end)
WordBoundaryAt(s, k) == (k >= 1 /\ IsWordChar(s[k])) # (k < Len(s) /\ IsWordChar(s[k + 1]))

\* _system_regex.search(s)
SystemRegexSearch(s) ==
    \E p \in _SYSTEM_PATTERNS : \E pos \in 1..(Len(s) + 1) :
        /\ p.anchored => pos = 1
        /\ p.leading_b => WordBoundaryAt(s, pos - 1)
        /\ MatchesLiteralAt(s, pos, p.lit)
        /\ WordBoundaryAt(s, pos + Len(p.lit) - 1)

\* _META_TAGS.match(s): ^\s* and then one of the tags
MetaTagsMatch(s) ==
    \E k \in 0..Len(s) :
        /\ \A i \in 1..k : s[i] \in Whitespace
        /\ \E tag \in _META_TAGS : MatchesLiteralAt(s, k + 1, tag)

\* stripped.split()[0]: the text up to its first whitespace character
FirstToken(stripped) ==
    IF \E i \in 1..Len(stripped) : stripped[i] \in Whitespace
    THEN SubSeq(stripped, 1, (CHOOSE i \in 1..Len(stripped) : stripped[i] \in Whitespace /\ \A j \in 1..(i - 1) : stripped[j] \notin Whitespace) - 1)
    ELSE stripped

\* first_word = stripped.split()[0].lower() if stripped else ""
FirstWord(stripped) == IF stripped # <<>> THEN Lower(FirstToken(stripped)) ELSE <<>>

\* the positional heuristic of the last rule
PositionalRule(stripped, is_before_first_user) ==
    /\ is_before_first_user
    /\ ~EndsWith(stripped, <<"?">>)
    /\ ~(\E g \in Greetings : StartsWith(Lower(stripped), g))

\* mutant: the positional rule is applied whatever the flag
is_probable_system_heuristic_ignoring_flag(text, is_before_first_user) ==
    \/ SystemRegexSearch(Strip(text))
    \/ MetaTagsMatch(Strip(text))
    \/ FirstWord(Strip(text)) \in _IMPERATIVE_VERBS
    \/ (\E i \in 1..Len(text) : text[i] = "\n") \/ (\E i \in 1..Len(text) : text[i] = ";")
    \/ PositionalRule(Strip(text), TRUE)

\* TRUE when the text looks like a system instruction; the rules are tried
\* in the order of the code and the first that matches returns True
is_probable_system_heuristic(text, is_before_first_user) ==
    LET stripped == Strip(text)
    IN  IF SystemRegexSearch(Strip(text)) THEN TRUE
        ELSE IF MetaTagsMatch(stripped) THEN TRUE
        ELSE IF FirstWord(stripped) \in _IMPERATIVE_VERBS THEN TRUE
        ELSE IF (\E i \in 1..Len(text) : text[i] = "\n") \/ (\E i \in 1..Len(text) : text[i] = ";") THEN TRUE
        ELSE IF PositionalRule(stripped, is_before_first_user) THEN TRUE
        ELSE FALSE

-----------------------------------------------------------------------------
(* Objects                                                                 *)

\* the attributes the class body of Node gives a value: parent and context
ClassAttrs == {"parent", "context"}

\* hasattr(node, name)
HasAttr(node, name) == name \in nodes[node].attrs \cup ClassAttrs

\* Node() followed by the assignments of message and response (and of parent
\* where the caller assigns it): no other instance attribute exists
NewObject(message, response, parent, assigned) == [attrs |-> assigned, message |-> message, response |-> response, parent |-> parent, response_segments |-> <<>>, children |-> <<>>, _id |-> ""]

\* what the last call was and how it ended: result is "ok", "None" or the
\* exception raised; ret is the object or number returned
Outcome(op, node, index, id, result, ret) == [op |-> op, node |-> node, index |-> index, id |-> id, result |-> result, ret |-> ret, context |-> <<>>, calls |-> <<>>]

-----------------------------------------------------------------------------
(* Node.get_context                                                        *)

Reverse(s) == [i \in 1..Len(s) |-> s[Len(s) + 1 - i]]

\* the characters of the lookbehind (?<=[.!?])
SentenceEnd == {".", "!", "?"}

\* re.split(r'(?<=[.!?]) +', message): cut at every run of spaces that
\* follows a sentence end; the run is dropped
RECURSIVE SplitSentences(_)
SplitSentences(s) ==
    IF \E i \in 2..Len(s) : s[i] = " " /\ s[i - 1] \in SentenceEnd
    THEN LET i == CHOOSE k \in 2..Len(s) : /\ s[k] = " " /\ s[k - 1] \in SentenceEnd
                                           /\ \A j \in 2..(k - 1) : ~(s[j] = " " /\ s[j - 1] \in SentenceEnd)
             j == CHOOSE k \in i..Len(s) : /\ \A q \in i..k : s[q] = " "
                                           /\ (k = Len(s) \/ s[k + 1] # " ")
         IN  <<SubSeq(s, 1, i - 1)>> \o SplitSentences(SubSeq(s, j + 1, Len(s)))
    ELSE <<s>>

\* the flag the inner loop passes to the classifier: `for element in context`
\* leaves through a break in its first iteration on either branch, so only
\* the first entry of the transcript is looked at
IsBeforeFirstUser(context) == ~(Head(context).role = "user")

\* the body of `for idx in reversed(line)`: one entry per unit (none when the
\* transcript is empty, which the assistant entry excludes); calls records
\* the arguments of each call of the classifier
ClassifyUnit(acc, idx) ==
    IF acc.context = <<>> THEN acc
    ELSE LET flag == IsBeforeFirstUser(acc.context)
             role == IF is_probable_system_heuristic(idx, flag) THEN "system" ELSE "user"
         IN  [context |-> Append(acc.context, [role |-> role, content |-> idx]),
              calls |-> Append(acc.calls, [text |-> idx, is_before_first_user |-> flag, role |-> role])]

RECURSIVE ClassifyUnits(_, _)
ClassifyUnits(units, acc) == IF units = <<>> THEN acc ELSE ClassifyUnits(Tail(units), ClassifyUnit(acc, Head(units)))

\* one iteration of `while current != None`: the assistant entry, then the
\* units of the message from the last to the first
VisitNode(current, acc) == ClassifyUnits(Reverse(SplitSentences(nodes[current].message)), [acc EXCEPT !.context = Append(@, [role |-> "assistant", content |-> nodes[current].response])])

RECURSIVE Walk(_, _)
Walk(current, acc) == IF current = 0 THEN acc ELSE Walk(nodes[current].parent, VisitNode(current, acc))

\* mutant: the collected list is returned without the final reversal
get_context_not_reversed(node) == Walk(node, [context |-> <<>>, calls |-> <<>>])

\* the transcript get_context returns, with the classifier calls it made
get_context(node) == LET acc == Walk(node, [context |-> <<>>, calls |-> <<>>]) IN [context |-> Reverse(acc.context), calls |-> acc.calls]

-----------------------------------------------------------------------------
(* Tree: lookup and depth                                                  *)

\* a lookup's result: the exception raised ("" for none) and the object
\* returned (0 for None)
Found(node) == [exc |-> "", node |-> node]

Raised(exc) == [exc |-> exc, node |-> 0]

RECURSIVE _search_node_recursive(_, _)
RECURSIVE SearchChildren(_, _)

\* `for child in node.children` of _search_node_recursive: the first child
\* whose subtree holds the id; an exception of a recursive call propagates
SearchChildren(children, node_id) ==
    IF children = <<>> THEN Found(0)
    ELSE LET result == _search_node_recursive(Head(children), node_id)
         IN  IF result.exc # "" \/ result.node # 0 THEN result ELSE SearchChildren(Tail(children), node_id)

_search_node_recursive(node, node_id) ==
    IF HasAttr(node, "_id") /\ nodes[node]._id = node_id THEN Found(node)
    ELSE IF ~HasAttr(node, "children") THEN Raised("AttributeError")
    ELSE SearchChildren(nodes[node].children, node_id)

_find_node_by_id(node_id) == IF root_node = 0 THEN Found(0) ELSE _search_node_recursive(root_node, node_id)

\* a depth computation's result: the exception raised ("" for none) and
\* the depth
RECURSIVE _calculate_depth_recursive(_, _)
RECURSIVE DepthOfChildren(_, _, _)

\* `for child in node.children` of _calculate_depth_recursive
DepthOfChildren(children, current_depth, max_child_depth) ==
    IF children = <<>> THEN [exc |-> "", depth |-> max_child_depth]
    ELSE LET child_depth == _calculate_depth_recursive(Head(children), current_depth + 1)
         IN  IF child_depth.exc # "" THEN child_depth
             ELSE DepthOfChildren(Tail(children), current_depth, IF child_depth.depth > max_child_depth THEN child_depth.depth ELSE max_child_depth)

_calculate_depth_recursive(node, current_depth) ==
    IF ~HasAttr(node, "children") THEN [exc |-> "AttributeError", depth |-> 0]
    ELSE IF nodes[node].children = <<>> THEN [exc |-> "", depth |-> current_depth]
    ELSE DepthOfChildren(nodes[node].children, current_depth, current_depth)

_calculate_max_depth == IF root_node = 0 THEN [exc |-> "", depth |-> 0] ELSE _calculate_depth_recursive(root_node, 1)

-----------------------------------------------------------------------------
(* Inputs                                                                  *)

\* the turns of the calls, a message with its response: "x. y?" (two units,
\* the last a question) answered by "a\n\nb" (two lines around a blank one),
\* and "hi" (a greeting) answered by " " (no non-blank line)
Turns == {
    [message |-> <<"x", ".", " ", "y", "?">>, response |-> <<"a", "\n", "\n", "b">>],
    [message |-> <<"h", "i">>, response |-> <<" ">>] }

\* the segment indices of the calls: negative, in range, beyond the end
SegmentIndices == -1..2

\* the ids of the calls; no object carries an id unless _id was assigned
IdInputs == {"id1", "id2"}

Objects == 1..Len(nodes)

-----------------------------------------------------------------------------
(* The operations                                                          *)

Init ==
    /\ nodes = <<>>
    /\ root_node = 0
    /\ node_count = 0
    /\ last = Outcome("init", 0, 0, "", "ok", 0)

\* main.py, lines 5-12: root = Node(); root.message = ...; root.response = ...
NewNode(message, response) ==
    /\ Len(nodes) < MaxNodes
    /\ nodes' = Append(nodes, NewObject(message, response, 0, {"message", "response"}))
    /\ last' = Outcome("Node", Len(nodes) + 1, 0, "", "ok", Len(nodes) + 1)
    /\ UNCHANGED <<root_node, node_count>>

\* node._segment_response(), as main.py line 13 calls it: the segment list
\* is rebuilt from the response, the former list is dropped
_segment_response(node) ==
    /\ nodes' = [nodes EXCEPT ![node].response_segments = SegmentsOf(nodes[node].response), ![node].attrs = @ \cup {"response_segments"}]
    /\ last' = Outcome("_segment_response", node, 0, "", "ok", 0)
    /\ UNCHANGED <<root_node, node_count>>

\* Node.add_child: the child is built, then self.children.append(child)
\* raises AttributeError when self has no attribute children
add_child(self, message, response) ==
    /\ IF HasAttr(self, "children")
       THEN /\ Len(nodes) < MaxNodes
            /\ nodes' = Append([nodes EXCEPT ![self].children = Append(@, Len(nodes) + 1)], NewObject(message, response, self, {"message", "response", "parent"}))
            /\ last' = Outcome("add_child", self, 0, "", "ok", Len(nodes) + 1)
       ELSE /\ nodes' = nodes
            /\ last' = Outcome("add_child", self, 0, "", "AttributeError", 0)
    /\ UNCHANGED <<root_node, node_count>>

\* how Node.add_segment_specific_child ends: the chained comparison
\* 0 <= segment_index < len(self.response_segments) reads response_segments
\* only when 0 <= segment_index holds
SegmentChildResult(self, segment_index) ==
    IF ~(0 <= segment_index) THEN "IndexError"
    ELSE IF ~HasAttr(self, "response_segments") THEN "AttributeError"
    ELSE IF segment_index < Len(nodes[self].response_segments) THEN "ok"
    ELSE "IndexError"

\* mutant: child.parent = self is missing, the child keeps the class's None
WithSegmentChildWithoutParent(self, segment_index, message, response) == Append([nodes EXCEPT ![self].response_segments[segment_index + 1].children = Append(@, Len(nodes) + 1)], NewObject(message, response, 0, {"message", "response"}))

\* self.response_segments[segment_index].children.append(child) with the
\* child Node.add_segment_specific_child builds
WithSegmentChild(self, segment_index, message, response) == Append([nodes EXCEPT ![self].response_segments[segment_index + 1].children = Append(@, Len(nodes) + 1)], NewObject(message, response, self, {"message", "response", "parent"}))

\* Node.add_segment_specific_child
Node_add_segment_specific_child(self, segment_index, message, response) ==
    /\ IF SegmentChildResult(self, segment_index) = "ok"
       THEN /\ Len(nodes) < MaxNodes
            /\ nodes' = WithSegmentChild(self, segment_index, message, response)
            /\ last' = Outcome("add_segment_specific_child", self, segment_index, "", "ok", Len(nodes) + 1)
       ELSE /\ nodes' = nodes
            /\ last' = Outcome("add_segment_specific_child", self, segment_index, "", SegmentChildResult(self, segment_index), 0)
    /\ UNCHANGED <<root_node, node_count>>

\* Node.get_context
GetContext(self) ==
    /\ last' = [Outcome("get_context", self, 0, "", "ok", 0) EXCEPT !.context = get_context(self).context, !.calls = get_context(self).calls]
    /\ UNCHANGED <<nodes, root_node, node_count>>

\* Node.is_probable_system_heuristic called on its own
Classify(text, is_before_first_user) ==
    /\ last' = [Outcome("is_probable_system_heuristic", 0, 0, "", "ok", 0) EXCEPT !.calls = <<[text |-> text, is_before_first_user |-> is_before_first_user, role |-> IF is_probable_system_heuristic(text, is_before_first_user) THEN "system" ELSE "user"]>>]
    /\ UNCHANGED <<nodes, root_node, node_count>>

\* mutant: the check for an existing root is missing
create_root_node_without_check(user_message, ai_response) ==
    /\ Len(nodes) < MaxNodes
    /\ nodes' = Append(nodes, NewObject(user_message, ai_response, 0, {"message", "response", "parent"}))
    /\ root_node' = Len(nodes) + 1
    /\ node_count' = 1
    /\ last' = Outcome("create_root_node", 0, 0, "", "ok", Len(nodes) + 1)

\* mutant: self.node_count = 1 is missing
create_root_node_without_count(user_message, ai_response) ==
    IF root_node # 0
    THEN /\ last' = Outcome("create_root_node", 0, 0, "", "ValueError", 0)
         /\ UNCHANGED <<nodes, root_node, node_count>>
    ELSE /\ Len(nodes) < MaxNodes
         /\ nodes' = Append(nodes, NewObject(user_message, ai_response, 0, {"message", "response", "parent"}))
         /\ root_node' = Len(nodes) + 1
         /\ node_count' = node_count
         /\ last' = Outcome("create_root_node", 0, 0, "", "ok", Len(nodes) + 1)

\* Tree.create_root_node
create_root_node(user_message, ai_response) ==
    IF root_node # 0
    THEN /\ last' = Outcome("create_root_node", 0, 0, "", "ValueError", 0)
         /\ UNCHANGED <<nodes, root_node, node_count>>
    ELSE /\ Len(nodes) < MaxNodes
         /\ nodes' = Append(nodes, NewObject(user_message, ai_response, 0, {"message", "response", "parent"}))
         /\ root_node' = Len(nodes) + 1
         /\ node_count' = 1
         /\ last' = Outcome("create_root_node", 0, 0, "", "ok", Len(nodes) + 1)

\* Tree.add_child_node
add_child_node(parent_node_id, user_message, ai_response) ==
    LET parent_node == _find_node_by_id(parent_node_id)
    IN  IF parent_node.exc # ""
        THEN /\ last' = Outcome("add_child_node", 0, 0, parent_node_id, parent_node.exc, 0)
             /\ UNCHANGED <<nodes, root_node, node_count>>
        ELSE IF parent_node.node = 0
        THEN /\ last' = Outcome("add_child_node", 0, 0, parent_node_id, "None", 0)
             /\ UNCHANGED <<nodes, root_node, node_count>>
        ELSE IF ~HasAttr(parent_node.node, "children")
        THEN /\ last' = Outcome("add_child_node", parent_node.node, 0, parent_node_id, "AttributeError", 0)
             /\ UNCHANGED <<nodes, root_node, node_count>>
        ELSE /\ Len(nodes) < MaxNodes
             /\ nodes' = Append([nodes EXCEPT ![parent_node.node].children = Append(@, Len(nodes) + 1)], NewObject(user_message, ai_response, parent_node.node, {"message", "response", "parent"}))
             /\ node_count' = node_count + 1
             /\ last' = Outcome("add_child_node", parent_node.node, 0, parent_node_id, "ok", Len(nodes) + 1)
             /\ UNCHANGED root_node

\* Tree.add_segment_specific_child: an IndexError of the node's method is
\* caught and None returned; any other exception propagates
Tree_add_segment_specific_child(parent_node_id, segment_index, user_message, ai_response) ==
    LET parent_node == _find_node_by_id(parent_node_id)
    IN  IF parent_node.exc # ""
        THEN /\ last' = Outcome("Tree.add_segment_specific_child", 0, segment_index, parent_node_id, parent_node.exc, 0)
             /\ UNCHANGED <<nodes, root_node, node_count>>
        ELSE IF parent_node.node = 0
        THEN /\ last' = Outcome("Tree.add_segment_specific_child", 0, segment_index, parent_node_id, "None", 0)
             /\ UNCHANGED <<nodes, root_node, node_count>>
        ELSE IF SegmentChildResult(parent_node.node, segment_index) = "IndexError"
        THEN /\ last' = Outcome("Tree.add_segment_specific_child", parent_node.node, segment_index, parent_node_id, "None", 0)
             /\ UNCHANGED <<nodes, root_node, node_count>>
        ELSE IF SegmentChildResult(parent_node.node, segment_index) # "ok"
        THEN /\ last' = Outcome("Tree.add_segment_specific_child", parent_node.node, segment_index, parent_node_id, SegmentChildResult(parent_node.node, segment_index), 0)
             /\ UNCHANGED <<nodes, root_node, node_count>>
        ELSE /\ Len(nodes) < MaxNodes
             /\ nodes' = WithSegmentChild(parent_node.node, segment_index, user_message, ai_response)
             /\ node_count' = node_count + 1
             /\ last' = Outcome("Tree.add_segment_specific_child", parent_node.node, segment_index, parent_node_id, "ok", Len(nodes) + 1)
             /\ UNCHANGED root_node

\* Tree.get_node
get_node(node_id) ==
    /\ last' = Outcome("get_node", 0, 0, node_id, IF _find_node_by_id(node_id).exc # "" THEN _find_node_by_id(node_id).exc ELSE IF _find_node_by_id(node_id).node = 0 THEN "None" ELSE "ok", _find_node_by_id(node_id).node)
    /\ UNCHANGED <<nodes, root_node, node_count>>

\* Tree.get_tree_stats, its max_depth entry
get_tree_stats ==
    /\ last' = Outcome("_calculate_max_depth", 0, 0, "", IF _calculate_max_depth.exc # "" THEN _calculate_max_depth.exc ELSE "ok", _calculate_max_depth.depth)
    /\ UNCHANGED <<nodes, root_node, node_count>>

Next ==
    \/ \E turn \in Turns : NewNode(turn.message, turn.response)
    \/ \E node \in Objects : _segment_response(node)
    \/ \E self \in Objects, turn \in Turns : add_child(self, turn.message, turn.response)
    \/ \E self \in Objects, segment_index \in SegmentIndices, turn \in Turns : Node_add_segment_specific_child(self, segment_index, turn.message, turn.response)
    \/ \E self \in Objects : GetContext(self)
    \/ \E turn \in Turns : create_root_node(turn.message, turn.response)
    \/ \E node_id \in IdInputs, turn \in Turns : add_child_node(node_id, turn.message, turn.response)
    \/ \E node_id \in IdInputs, segment_index \in SegmentIndices, turn \in Turns : Tree_add_segment_specific_child(node_id, segment_index, turn.message, turn.response)
    \/ \E node_id \in IdInputs : get_node(node_id)
    \/ get_tree_stats

Spec == Init /\ [][Next]_vars

-----------------------------------------------------------------------------
(* Segmentation of every response up to a length                           *)

\* the characters of the responses: a letter, the blank, the tab, the
\* line break and the carriage return
SegmentAlphabet == {"a", " ", "\t", "\n", "\r"}

\* main.py, lines 5-12, with any response
InitSegment ==
    /\ \E response \in TextsUpTo(SegmentAlphabet, MaxTextLen) : nodes = <<NewObject(<<"h", "i">>, response, 0, {"message", "response"})>>
    /\ root_node = 0
    /\ node_count = 0
    /\ last = Outcome("Node", 1, 0, "", "ok", 1)

NextSegment == \E node \in Objects : _segment_response(node)

SpecSegment == InitSegment /\ [][NextSegment]_vars

-----------------------------------------------------------------------------
(* Classification of every text up to a length                             *)

\* the characters of the texts: whitespace of each kind, the letters of a
\* greeting, the question mark and the semicolon
ClassifyAlphabet == {" ", "\t", "\n", "\r", "h", "i", "?", ";"}

\* texts that the rules on phrases, tags and first words match, and near
\* misses of them: "You are x", "you arex", "(System) x", "Use x", "user",
\* "x make sure", "xmake sure"
ClassifySamples == {
    <<"Y", "o", "u", " ", "a", "r", "e", " ", "x">>,
    <<"y", "o", "u", " ", "a", "r", "e", "x">>,
    <<"(", "S", "y", "s", "t", "e", "m", ")", " ", "x">>,
    <<"U", "s", "e", " ", "x">>,
    <<"u", "s", "e", "r">>,
    <<"x", " ", "m", "a", "k", "e", " ", "s", "u", "r", "e">>,
    <<"x", "m", "a", "k", "e", " ", "s", "u", "r", "e">> }

\* the texts and flags the classifier is called with
InitClassify ==
    /\ \E text \in TextsUpTo(ClassifyAlphabet, MaxTextLen) \cup ClassifySamples, is_before_first_user \in BOOLEAN :
           last = [Outcome("input", 0, 0, "", "ok", 0) EXCEPT !.calls = <<[text |-> text, is_before_first_user |-> is_before_first_user, role |-> ""]>>]
    /\ nodes = <<>>
    /\ root_node = 0
    /\ node_count = 0

NextClassify == last.op = "input" /\ Classify(last.calls[1].text, last.calls[1].is_before_first_user)

SpecClassify == InitClassify /\ [][NextClassify]_vars

-----------------------------------------------------------------------------
(* The branching operations on a tree whose nodes are segmented once       *)

\* node._segment_response() on a node that has no segment list yet, as
\* main.py line 13 calls it once the response is assigned
FirstSegmentation(node) == ~HasAttr(node, "response_segments") /\ _segment_response(node)

NextBranching ==
    \/ \E turn \in Turns : create_root_node(turn.message, turn.response)
    \/ \E node \in Objects : FirstSegmentation(node)
    \/ \E self \in Objects, turn \in Turns : add_child(self, turn.message, turn.response)
    \/ \E self \in Objects, segment_index \in SegmentIndices, turn \in Turns : Node_add_segment_specific_child(self, segment_index, turn.message, turn.response)
    \/ \E node_id \in IdInputs, turn \in Turns : add_child_node(node_id, turn.message, turn.response)
    \/ \E node_id \in IdInputs, segment_index \in SegmentIndices, turn \in Turns : Tree_add_segment_specific_child(node_id, segment_index, turn.message, turn.response)

SpecBranching == Init /\ [][NextBranching]_vars

-----------------------------------------------------------------------------
(* The operations of Tree, with the script's own nodes beside the tree     *)

NextTree ==
    \/ \E turn \in Turns : NewNode(turn.message, turn.response)
    \/ \E node \in Objects : FirstSegmentation(node)
    \/ \E self \in Objects : GetContext(self)
    \/ \E turn \in Turns : create_root_node(turn.message, turn.response)
    \/ \E node_id \in IdInputs, turn \in Turns : add_child_node(node_id, turn.message, turn.response)
    \/ \E node_id \in IdInputs, segment_index \in SegmentIndices, turn \in Turns : Tree_add_segment_specific_child(node_id, segment_index, turn.message, turn.response)
    \/ \E node_id \in IdInputs : get_node(node_id)
    \/ get_tree_stats

SpecTree == Init /\ [][NextTree]_vars

-----------------------------------------------------------------------------
(* Properties                                                              *)

\* the parent links from the root of a node's chain down to the node
RECURSIVE PathTo(_)
PathTo(node) == IF node = 0 THEN <<>> ELSE Append(PathTo(nodes[node].parent), node)

\* the objects of the tree: the root and whatever hangs below it
TreeNodes == {node \in Objects : root_node # 0 /\ PathTo(node)[1] = root_node}

\* the number of segments the response of a node has
SegmentCount(node) == Len(SegmentsOf(nodes[node].response))

\* C1: add_segment_specific_child on a node of the tree with an index below
\* 0 or at or beyond the number of segments of the node raises IndexError
\* and changes no object
C1_OutOfRangeRaisesIndexError ==
    [][(last'.op = "add_segment_specific_child" /\ last'.node \in TreeNodes /\ (last'.index < 0 \/ last'.index >= SegmentCount(last'.node)))
        => (last'.result = "IndexError" /\ nodes' = nodes)]_vars

\* C2: create_root_node on a tree that has a root raises ValueError and
\* leaves the objects, the root and the node count as they are; and the
\* root, once set, stays the same object with the same message and response
C2_SecondRootRejected ==
    [][/\ (root_node # 0 /\ last'.op = "create_root_node") => (last'.result = "ValueError" /\ nodes' = nodes /\ root_node' = root_node /\ node_count' = node_count)
       /\ root_node # 0 => (/\ root_node' = root_node
                            /\ nodes'[root_node].message = nodes[root_node].message
                            /\ nodes'[root_node].response = nodes[root_node].response)]_vars

\* a second create_root_node has been called and has raised ValueError
C2_Witness == root_node # 0 /\ last.op = "create_root_node" /\ last.result = "ValueError"

\* C3: add_child on a node of the tree succeeds: a new object whose parent
\* is the node is appended to the node's children and returned
C3_AddChildSucceeds ==
    [][(last'.op = "add_child" /\ last'.node \in TreeNodes)
        => (/\ last'.result = "ok"
            /\ Len(nodes') = Len(nodes) + 1
            /\ last'.ret = Len(nodes')
            /\ nodes'[last'.ret].parent = last'.node
            /\ nodes'[last'.node].children = Append(nodes[last'.node].children, last'.ret))]_vars

\* C4: every node of the tree has a segment list, and it is the segmentation
\* of its response
C4_SegmentsFollowResponse ==
    \A node \in TreeNodes :
        /\ HasAttr(node, "response_segments")
        /\ Len(nodes[node].response_segments) = SegmentCount(node)
        /\ \A i \in 1..SegmentCount(node) : nodes[node].response_segments[i].content = SegmentsOf(nodes[node].response)[i].content

\* the lines of a text, each named by the position before its first
\* character: 0 and the position of every line break
LineStarts(s) == {0} \cup {i \in 1..Len(s) : s[i] = "\n"}

\* the line that starts after position b: up to the next line break
LineFrom(s, b) == SubSeq(s, b + 1, (CHOOSE e \in (b + 1)..(Len(s) + 1) : (e = Len(s) + 1 \/ s[e] = "\n") /\ \A i \in (b + 1)..(e - 1) : s[i] # "\n") - 1)

NonBlank(t) == \E i \in 1..Len(t) : t[i] \notin Whitespace

NonBlankStarts(s) == {b \in LineStarts(s) : NonBlank(LineFrom(s, b))}

\* a non-blank line from its first to its last character that is not
\* whitespace
Trimmed(t) ==
    SubSeq(t, CHOOSE i \in 1..Len(t) : t[i] \notin Whitespace /\ \A j \in 1..(i - 1) : t[j] \in Whitespace,
              CHOOSE i \in 1..Len(t) : t[i] \notin Whitespace /\ \A j \in (i + 1)..Len(t) : t[j] \in Whitespace)

\* the i-th non-blank line of a text, counted from 1
NthNonBlankLine(s, i) == LineFrom(s, CHOOSE b \in NonBlankStarts(s) : Cardinality({c \in NonBlankStarts(s) : c < b}) = i - 1)

\* C5: _segment_response yields one segment per non-blank line, in order:
\* the i-th has index i (from 0), the trimmed i-th non-blank line as content
\* and no children; blank lines yield no segment
C5_SegmentsAreNonBlankLines ==
    \A node \in Objects : HasAttr(node, "response_segments") =>
        LET segments == nodes[node].response_segments
            response == nodes[node].response
        IN  /\ Len(segments) = Cardinality(NonBlankStarts(response))
            /\ \A i \in 1..Len(segments) :
                   /\ segments[i].index = i - 1
                   /\ segments[i].content = Trimmed(NthNonBlankLine(response, i))
                   /\ segments[i].children = <<>>

\* "a\n\na" has been segmented into two segments, and a response of blank
\* lines into none
C5_Witness ==
    /\ last.op = "_segment_response"
    /\ nodes[1].response \in {<<"a", "\n", "\n", "a">>, <<" ", "\n", "\t">>}
    /\ Len(nodes[1].response_segments) = IF nodes[1].response = <<"a", "\n", "\n", "a">> THEN 2 ELSE 0

\* C6: in one get_context, the flag of each call of the classifier is true
\* exactly when no earlier call of the walk answered USER
C6_RunningFlag ==
    last.op = "get_context" =>
        \A k \in 1..Len(last.calls) : last.calls[k].is_before_first_user = (\A j \in 1..(k - 1) : last.calls[j].role # "user")

\* the positions where re.split cuts a message: a space after a sentence end
Cuts(s) == {i \in 2..Len(s) : s[i] = " " /\ s[i - 1] \in SentenceEnd}

\* the last space of the run of spaces that starts at position i
RunEnd(s, i) == CHOOSE j \in i..Len(s) : (\A q \in i..j : s[q] = " ") /\ (j = Len(s) \/ s[j + 1] # " ")

\* the k-th smallest element of a set of numbers
Nth(S, k) == CHOOSE x \in S : Cardinality({y \in S : y < x}) = k - 1

\* the k-th unit of a message: from the end of the cut before it to the
\* start of the cut after it
Unit(s, k) == SubSeq(s, IF k = 1 THEN 1 ELSE RunEnd(s, Nth(Cuts(s), k - 1)) + 1, IF k = Cardinality(Cuts(s)) + 1 THEN Len(s) ELSE Nth(Cuts(s), k) - 1)

\* the positions of the assistant entries of a transcript
AssistantAt(context) == {i \in 1..Len(context) : context[i].role = "assistant"}

\* C7: get_context returns one assistant entry per node of the path from
\* the root to the target, in that order and with the node's response; the
\* entries of a node's message lie between the assistant entry of its
\* parent and its own, which for the target is the last entry
C7_TranscriptOrder ==
    last.op = "get_context" =>
        LET context == last.context
            path == PathTo(last.node)
            at == AssistantAt(context)
        IN  /\ Cardinality(at) = Len(path)
            /\ Len(context) \in at
            /\ \A k \in 1..Len(path) :
                   LET message == nodes[path[k]].message
                       from == IF k = 1 THEN 0 ELSE Nth(at, k - 1)
                   IN  /\ context[Nth(at, k)].content = nodes[path[k]].response
                       /\ Nth(at, k) - from - 1 = Cardinality(Cuts(message)) + 1
                       /\ \A u \in 1..(Cardinality(Cuts(message)) + 1) : context[from + u].content = Unit(message, u)

\* get_context has run on a node with a parent whose message has two units
C7_Witness ==
    /\ last.op = "get_context"
    /\ nodes[last.node].parent # 0
    /\ Cardinality(Cuts(nodes[nodes[last.node].parent].message)) = 1
    /\ Len(last.context) >= 4

WhitespaceOnly(text) == \A i \in 1..Len(text) : text[i] \in Whitespace

HasLineBreak(text) == \E i \in 1..Len(text) : text[i] = "\n"

\* the role the positional rule alone gives
PositionalRole(is_before_first_user) == IF is_before_first_user THEN "system" ELSE "user"

\* C8 as stated: every empty or whitespace-only text is SYSTEM before the
\* first user entry and USER after it
C8_WhitespaceByPositionOnly ==
    (last.op = "is_probable_system_heuristic" /\ WhitespaceOnly(last.calls[1].text))
        => last.calls[1].role = PositionalRole(last.calls[1].is_before_first_user)

\* C8 amended: an empty or whitespace-only text without a line break is
\* SYSTEM before the first user entry and USER after it; one with a line
\* break is SYSTEM in both cases
C8_WhitespaceWithoutLineBreak ==
    (last.op = "is_probable_system_heuristic" /\ WhitespaceOnly(last.calls[1].text))
        => last.calls[1].role = IF HasLineBreak(last.calls[1].text) THEN "system" ELSE PositionalRole(last.calls[1].is_before_first_user)

\* " \t" has been classified after the first user entry, as USER
C8_Witness ==
    /\ last.op = "is_probable_system_heuristic"
    /\ last.calls[1].text = <<" ", "\t">>
    /\ ~last.calls[1].is_before_first_user
    /\ last.calls[1].role = "user"

\* C9: get_node returns the node of the tree that carries the id, None
\* when no node of the tree carries it, and never raises; every node of
\* the tree carries an id, and no two carry the same
C9_GetNodeFindsEveryNode ==
    last.op = "get_node" =>
        /\ \A node \in TreeNodes : HasAttr(node, "_id") /\ _find_node_by_id(nodes[node]._id) = Found(node)
        /\ \A a, b \in TreeNodes : a # b => nodes[a]._id # nodes[b]._id
        /\ (\A node \in TreeNodes : nodes[node]._id # last.id) => last.result = "None"

\* the number of nodes on the longest chain from the root down
LongestChain == IF root_node = 0 THEN 0 ELSE Nth({0 - Len(PathTo(node)) : node \in TreeNodes}, 1) * (0 - 1)

\* C10: the maximum depth is the number of nodes on the longest chain from
\* the root: 0 without a root, 1 for a root alone
C10_MaxDepthIsLongestChain ==
    last.op = "_calculate_max_depth" => (last.result = "ok" /\ last.ret = LongestChain)

\* the parents of a node, its parent's parents and so on, at most k links up
RECURSIVE AncestorsWithin(_, _)
AncestorsWithin(node, k) == IF k = 0 \/ nodes[node].parent = 0 THEN {} ELSE {nodes[node].parent} \cup AncestorsWithin(nodes[node].parent, k - 1)

\* the places of a node's containers: <<0, i>> is the i-th general child,
\* <<k, i>> the i-th child of the k-th segment
Slots(node) == {<<0, i>> : i \in 1..Len(nodes[node].children)} \cup UNION {{<<k, i>> : i \in 1..Len(nodes[node].response_segments[k].children)} : k \in 1..Len(nodes[node].response_segments)}

\* the object at a place of a node's containers
ChildAt(node, slot) == IF slot[1] = 0 THEN nodes[node].children[slot[2]] ELSE nodes[node].response_segments[slot[1]].children[slot[2]]

\* the parent links form one rooted tree: the root is the one node without
\* parent, no node is its own ancestor, and every other node stands at
\* exactly one place of its parent's containers, where only children of that
\* parent stand
RootedTree ==
    /\ (nodes # <<>>) => (root_node # 0 /\ {node \in Objects : nodes[node].parent = 0} = {root_node})
    /\ \A node \in Objects : node \notin AncestorsWithin(node, Len(nodes))
    /\ \A node \in Objects : nodes[node].parent # 0 => Cardinality({slot \in Slots(nodes[node].parent) : ChildAt(nodes[node].parent, slot) = node}) = 1
    /\ \A node \in Objects : \A slot \in Slots(node) : ChildAt(node, slot) \in Objects /\ nodes[ChildAt(node, slot)].parent = node

\* s is the beginning of t
IsPrefix(s, t) == Len(s) <= Len(t) /\ SubSeq(t, 1, Len(s)) = s

\* no object is removed or given another parent, and every container keeps
\* its former members at their former places
AppendOnly ==
    /\ Len(nodes') >= Len(nodes)
    /\ \A node \in Objects :
           /\ nodes'[node].parent = nodes[node].parent
           /\ IsPrefix(nodes[node].children, nodes'[node].children)
           /\ Len(nodes'[node].response_segments) >= Len(nodes[node].response_segments)
           /\ \A k \in 1..Len(nodes[node].response_segments) : IsPrefix(nodes[node].response_segments[k].children, nodes'[node].response_segments[k].children)

TreeCreations == {"create_root_node", "add_child_node", "Tree.add_segment_specific_child"}

\* C12: after every step, node_count is the number of nodes of the tree;
\* a creation of Tree that succeeds adds one node and raises the count by
\* one, one that fails leaves the count as it was
C12_NodeCountIsTreeSize ==
    [][/\ node_count' = Cardinality(TreeNodes')
       /\ (last'.op \in TreeCreations /\ last'.result = "ok") => (node_count' = node_count + 1 /\ Cardinality(TreeNodes') = Cardinality(TreeNodes) + 1)
       /\ (last'.op \in TreeCreations /\ last'.result # "ok") => (node_count' = node_count /\ nodes' = nodes)]_vars

\* with a segmented root in place, a segment-specific child was asked for
\* at an index beyond the root's segments, and the count is still 1
C12_Witness ==
    /\ last.op = "Tree.add_segment_specific_child"
    /\ last.result # "ok"
    /\ root_node # 0
    /\ HasAttr(root_node, "response_segments")
    /\ last.index >= Len(nodes[root_node].response_segments)
    /\ node_count = 1
    /\ Cardinality(TreeNodes) = 1

====
